---- MODULE Spec2Model ----
(***************************************************************************)
(* GodEater1-2Fix (src/src/dllmain.cpp): a DLL that, on a worker thread,   *)
(* reads its configuration and installs an inline hook on ReadFile and     *)
(* three mid-function hooks in the game image.  Host threads of the game   *)
(* run the hook callbacks inline.                                          *)
(*                                                                         *)
(* Single precision values (f32) are modelled bit-exactly for normal       *)
(* numbers as records [s, m, e] standing for (-1)^s * m * 2^e with         *)
(* 2^23 <= m < 2^24 (m = 0, e = 0 for a zero of sign s).  32-bit memory    *)
(* words are pairs <<top byte, low 24 bits>>.                              *)
(***************************************************************************)
EXTENDS Integers, Sequences, FiniteSets, TLC

(***************************************************************************)
(* IEEE-754 binary32 arithmetic, round to nearest even.                    *)
(***************************************************************************)
RECURSIVE Pow2(_)
Pow2(n) == IF n = 0 THEN 1 ELSE 2 * Pow2(n - 1)

RECURSIVE BitLen(_)
BitLen(n) == IF n = 0 THEN 0 ELSE 1 + BitLen(n \div 2)

\* n with its d low bits dropped, rounded to nearest, ties to even
RoundShift(n, d) ==
    IF d = 0 THEN n
    ELSE LET q    == n \div Pow2(d)
             r    == n % Pow2(d)
             half == Pow2(d - 1)
         IN  IF r > half \/ (r = half /\ q % 2 = 1) THEN q + 1 ELSE q

F32Zero == [s |-> 0, m |-> 0, e |-> 0]

\* the zero of sign s: +0.0f or -0.0f
F32SignedZero(s) == [s |-> s, m |-> 0, e |-> 0]

\* a rounded 24-bit significand q (possibly carried out to 2^24) at exponent e
F32Pack(s, q, e) ==
    IF q = 0 THEN F32Zero
    ELSE IF q = Pow2(24) THEN [s |-> s, m |-> Pow2(23), e |-> e + 1]
    ELSE [s |-> s, m |-> q, e |-> e]

\* static_cast<f32>(n) for an unsigned n below 2^31
F32FromU32(n) ==
    IF n = 0 THEN F32Zero
    ELSE LET k == BitLen(n)
         IN  IF k <= 24
             THEN [s |-> 0, m |-> n * Pow2(24 - k), e |-> k - 24]
             ELSE F32Pack(0, RoundShift(n, k - 24), k - 24)

\* static_cast<f32>(2^32 - k): the u32 a subtraction wraps to, 0 < k < 2^24.
\* 2^32 - k = (2^24 - c) * 2^8 + r with c = ceil(k / 2^8).
F32FromWrappedU32(k) ==
    LET c    == (k + 255) \div 256
        r    == c * 256 - k
        q    == Pow2(24) - c
        up   == r > 128 \/ (r = 128 /\ q % 2 = 1)
    IN  F32Pack(0, IF up THEN q + 1 ELSE q, 8)

\* static_cast<f32>(a - b) where a - b is computed in u32
F32FromU32Diff(a, b) ==
    IF a >= b THEN F32FromU32(a - b) ELSE F32FromWrappedU32(b - a)

\* long division: k quotient bits of r / d, with the doubled remainder
RECURSIVE DivBits(_, _, _, _)
DivBits(r, d, k, q) ==
    IF k = 0 THEN <<q, r>>
    ELSE LET bit == IF r >= d THEN 1 ELSE 0
         IN  DivBits(2 * (r - bit * d), d, k - 1, 2 * q + bit)

\* a / b in f32 (b nonzero); a zero quotient has the sign of the operands'
\* signs combined
F32Div(a, b) ==
    IF a.m = 0 THEN F32SignedZero((a.s + b.s) % 2)
    ELSE LET big == a.m >= b.m
             n   == IF big THEN a.m ELSE 2 * a.m
             x   == IF big THEN 0 ELSE -1
             qr  == DivBits(n, b.m, 24, 0)
             q   == qr[1]
             r2  == qr[2]
             up  == r2 > b.m \/ (r2 = b.m /\ q % 2 = 1)
         IN  F32Pack((a.s + b.s) % 2, IF up THEN q + 1 ELSE q, a.e - b.e + x - 23)

\* a * b in f32: the 48-bit product of the significands in 12-bit limbs; a
\* zero product has the sign of the operands' signs combined
F32Mul(a, b) ==
    IF a.m = 0 \/ b.m = 0 THEN F32SignedZero((a.s + b.s) % 2)
    ELSE LET a1  == a.m \div 4096
             a0  == a.m % 4096
             b1  == b.m \div 4096
             b0  == b.m % 4096
             mid == a1 * b0 + a0 * b1
             t   == (mid % 4096) * 4096 + a0 * b0
             H   == a1 * b1 + (mid \div 4096) + (t \div Pow2(24))
             L   == t % Pow2(24)
             s   == (a.s + b.s) % 2
         IN  IF H >= Pow2(23)
             THEN LET up == L > Pow2(23) \/ (L = Pow2(23) /\ H % 2 = 1)
                  IN  F32Pack(s, IF up THEN H + 1 ELSE H, a.e + b.e + 24)
             ELSE LET q  == 2 * H + (L \div Pow2(23))
                      r  == L % Pow2(23)
                      up == r > Pow2(22) \/ (r = Pow2(22) /\ q % 2 = 1)
                  IN  F32Pack(s, IF up THEN q + 1 ELSE q, a.e + b.e + 23)

\* static_cast<u32>(f) for f >= 0 below 2^31: truncation toward zero
F32ToU32(f) ==
    IF f.m = 0 THEN 0
    ELSE IF f.e >= 0 THEN f.m * Pow2(f.e)
    ELSE IF -f.e >= 24 THEN 0
    ELSE f.m \div Pow2(-f.e)

\* static_cast<u32>(f) for f >= 0 below 2^32, as <<high 16 bits, low 16 bits>>
F32ToU32Pair(f) ==
    IF f.m = 0 \/ f.e < 0
    THEN LET v == F32ToU32(f) IN <<v \div 65536, v % 65536>>
    ELSE <<f.m \div Pow2(16 - f.e), (f.m % Pow2(16 - f.e)) * Pow2(f.e)>>

\* the memory image of a normal f32: <<top byte, low 24 bits>>
F32Bits(f) ==
    IF f.m = 0 THEN <<128 * f.s, 0>>
    ELSE LET be == f.e + 150
         IN  <<128 * f.s + (be \div 2), (be % 2) * Pow2(23) + (f.m - Pow2(23))>>

\* bitwise and of two naturals
RECURSIVE BitAnd(_, _)
BitAnd(x, y) ==
    IF x = 0 \/ y = 0 THEN 0
    ELSE 2 * BitAnd(x \div 2, y \div 2) + (IF x % 2 = 1 /\ y % 2 = 1 THEN 1 ELSE 0)

(***************************************************************************)
(* Strings are sequences of one-character strings.                         *)
(***************************************************************************)
StartsWith(s, p) == Len(s) >= Len(p) /\ SubSeq(s, 1, Len(p)) = p

\* the long-path prefix GetFinalPathNameByHandleA puts before a DOS path
LongPathPrefix == <<"\\", "\\", "?", "\\">>

\* pathStr.starts_with(prefix) ? pathStr.substr(4) : pathStr
StripLongPathPrefix(s) ==
    IF StartsWith(s, LongPathPrefix) THEN SubSeq(s, 5, Len(s)) ELSE s

\* the largest index of s whose character is in cs, 0 if there is none
RECURSIVE LastIndexOf(_, _, _)
LastIndexOf(s, cs, i) ==
    IF i = 0 THEN 0
    ELSE IF s[i] \in cs THEN i
    ELSE LastIndexOf(s, cs, i - 1)

\* std::filesystem::path::filename: what follows the last separator (or the
\* drive's root name when there is no separator)
Filename(s) ==
    LET sep == LastIndexOf(s, {"\\", "/"}, Len(s))
    IN  IF sep > 0 THEN SubSeq(s, sep + 1, Len(s))
        ELSE IF Len(s) >= 2 /\ s[2] = ":" THEN SubSeq(s, 3, Len(s))
        ELSE s

\* std::filesystem::path::extension: from the last period of the filename;
\* empty for ".", ".." and for a filename whose only period is its first
\* character
Extension(s) ==
    LET f   == Filename(s)
        dot == LastIndexOf(f, {"."}, Len(f))
    IN  IF f = <<".">> \/ f = <<".", ".">> THEN <<>>
        ELSE IF dot <= 1 THEN <<>>
        ELSE SubSeq(f, dot, Len(f))

\* the suffix the intercept compares the extension with
MovieExtension == <<".", "w", "m", "v">>

(***************************************************************************)
(* The environment: host threads, file handles, ReadFile calls, register   *)
(* contexts and the HUD structures the hooked code works on.               *)
(***************************************************************************)
Threads == {"h1", "h2"}

Handles == {"hMovie", "hLongMovie", "hScript", "hPipe"}

\* char fileName[MAX_PATH]
MAX_PATH == 260

\* the final path of the file behind a handle; none for a pipe.  The long
\* movie sits under a directory whose name alone fills the buffer.
HandlePath(h) ==
    CASE h = "hMovie"     -> <<"\\", "\\", "?", "\\", "C", ":", "\\", "m", "\\", "i", ".", "w", "m", "v">>
      [] h = "hLongMovie" -> <<"\\", "\\", "?", "\\", "C", ":", "\\">> \o [i \in 1..MAX_PATH |-> "d"]
                                 \o <<"\\", "i", ".", "w", "m", "v">>
      [] h = "hScript"    -> <<"\\", "\\", "?", "\\", "C", ":", "\\", "d", "\\", "s", ".", "q", "p", "c", "k">>
      [] OTHER            -> <<>>

\* GetFinalPathNameByHandleA(hFile, fileName, MAX_PATH, FILE_NAME_NORMALIZED)
\* on the zeroed buffer: 0 when the handle has no path; the length, with the
\* path in the buffer, when path and terminator fit; the size required,
\* with the buffer left as it was, when they do not
GetFinalPathNameByHandleA(h) ==
    IF HandlePath(h) = <<>> THEN [ret |-> 0, fileName |-> <<>>]
    ELSE IF Len(HandlePath(h)) < MAX_PATH
    THEN [ret |-> Len(HandlePath(h)), fileName |-> HandlePath(h)]
    ELSE [ret |-> Len(HandlePath(h)) + 1, fileName |-> <<>>]

\* the five arguments of one ReadFile call, one call per handle
ReadCall(h) ==
    [hFile |-> h,
     lpBuffer |-> IF h = "hMovie" THEN "buf1" ELSE "buf2",
     nNumberOfBytesToRead |-> IF h = "hMovie" THEN 4096 ELSE 512,
     lpNumberOfBytesRead |-> IF h = "hPipe" THEN "NULL" ELSE "read1",
     lpOverlapped |-> IF h = "hPipe" THEN "ov1" ELSE "NULL"]

ReadCalls == {ReadCall(h) : h \in Handles}

\* the values the game has in xmm0 when it reaches a hooked instruction
EntryLanes ==
    {<<F32Div(F32FromU32(16), F32FromU32(9)), F32Zero, F32FromU32(1), F32Zero>>,
     <<F32FromU32(1920), F32FromU32(1080), F32Zero, F32FromU32(1)>>}

\* the words at eax+0x00, eax+0x30 and eax+0x3C when the HUD hook is reached
HudEntries ==
    {[f00 |-> F32Bits(F32FromU32(1)), f30 |-> <<t[1], 8388608>>, f3C |-> <<t[2], 8388608>>] :
        t \in {<<191, 63>>, <<255, 63>>, <<191, 127>>, <<0, 63>>, <<191, 0>>, <<63, 191>>}}

\* the configuration documents and the desktop geometry considered
Config(me, w, h, ch) ==
    [masterEnable |-> me, width |-> w, height |-> h, constrainHud |-> ch]

Configs ==
    {Config(TRUE, 3440, 1440, TRUE), Config(TRUE, 7680, 2160, TRUE),
     Config(TRUE, 0, 0, TRUE), Config(TRUE, 1920, 0, FALSE),
     Config(FALSE, 3440, 1440, TRUE), Config(FALSE, 0, 0, FALSE)}

Desktops == {<<1680, 1050>>}

Policies == {"aspectRatio", "resolution", "hudElements"}

VARIABLES
    config,             \* the parsed GodEater1-2Fix.yml
    desktop,            \* what Utils::getDesktopDimensions returns
    yml,                \* the yml_t global
    nativeWidth,        \* u32
    nativeOffset,       \* u32 as <<high 16 bits, low 16 bits>>
    widthScalingFactor, \* f32
    isMoviePlaying,     \* bool
    lastRead,           \* history: the handle of the latest intercepted read
    readFileHook,       \* the SafetyHookInline global: "empty" or "hooked"
    created,            \* the hook object create_inline returned, not yet assigned
    readFilePatched,    \* ReadFile's entry jumps to kernelBaseDllReadFileHook
    fix,                \* outcome of each fix
    wpc,                \* where the worker thread is in DllMain / Main
    runs,               \* how many times Main was entered
    hpc,                \* where each host thread is
    crashed,            \* the process took an access violation
    ev                  \* the last thing a host thread did

vars == <<config, desktop, yml, nativeWidth, nativeOffset, widthScalingFactor,
          isMoviePlaying, lastRead, readFileHook, created, readFilePatched, fix,
          wpc, runs, hpc, crashed, ev>>

cfgVars == <<config, desktop>>

ymlVars == <<yml, nativeWidth, nativeOffset, widthScalingFactor>>

flagVars == <<isMoviePlaying, lastRead>>

hookVars == <<readFileHook, created, readFilePatched, fix>>

hostVars == <<hpc, ev>>

Idle == [pc |-> "idle"]

Init ==
    /\ config \in Configs
    /\ desktop \in Desktops
    /\ yml = [masterEnable |-> FALSE, width |-> 0, height |-> 0,
              aspectRatio |-> F32Zero, constrainHud |-> FALSE]
    /\ nativeWidth = 0
    /\ nativeOffset = <<0, 0>>
    /\ widthScalingFactor = F32Zero
    /\ isMoviePlaying = FALSE
    /\ lastRead = "none"
    /\ readFileHook = "empty"
    /\ created = "none"
    /\ readFilePatched = FALSE
    /\ fix = [p \in Policies \cup {"movies"} |-> "none"]
    /\ wpc = "unloaded"
    /\ runs = 0
    /\ hpc = [t \in Threads |-> Idle]
    /\ crashed = FALSE
    /\ ev = [kind |-> "none"]

(***************************************************************************)
(* The worker thread: DllMain spawns Main, Main runs the fixes in order.   *)
(***************************************************************************)
\* the order with hudElementsFix moved before aspectRatioFix
MainNextHudFirst(pc) ==
    CASE pc = "logInit"        -> "readYml"
      [] pc = "readYml"        -> "moviesFix"
      [] pc = "moviesFix"      -> "hudElementsFix"
      [] pc = "hudElementsFix" -> "aspectRatioFix"
      [] pc = "aspectRatioFix" -> "resolutionFix"
      [] pc = "resolutionFix"  -> "done"

\* the order of the calls in Main
MainNext(pc) ==
    CASE pc = "logInit"        -> "readYml"
      [] pc = "readYml"        -> "moviesFix"
      [] pc = "moviesFix"      -> "aspectRatioFix"
      [] pc = "aspectRatioFix" -> "resolutionFix"
      [] pc = "resolutionFix"  -> "hudElementsFix"
      [] pc = "hudElementsFix" -> "done"

\* DLL_PROCESS_ATTACH: CreateThread(Main); no thread, no initialization
DllMain ==
    /\ wpc = "unloaded"
    /\ ~crashed
    /\ \E started \in BOOLEAN :
          /\ wpc' = IF started THEN "logInit" ELSE "noThread"
          /\ runs' = IF started THEN 1 ELSE 0
    /\ UNCHANGED <<cfgVars, ymlVars, flagVars, hookVars, hostVars, crashed>>

\* logInit: spdlog::basic_logger_mt registers the logger under a fixed name;
\* in a later run of Main the name is taken, the call throws and the
\* exception leaves Main before anything else is done
LogInit ==
    /\ wpc = "logInit"
    /\ ~crashed
    /\ wpc' = IF runs > 1 THEN "threw" ELSE MainNext(wpc)
    /\ UNCHANGED <<cfgVars, ymlVars, flagVars, hookVars, runs, hostVars, crashed>>

\* width == 0 || height == 0 replaces both by the desktop's
EffectiveResolution(cfg, desk) ==
    IF cfg.width = 0 \/ cfg.height = 0 THEN desk ELSE <<cfg.width, cfg.height>>

\* the aspect ratio left at the zero the global starts with
AspectRatioOfUnset(w, h) == F32Zero

\* static_cast<f32>(width) / static_cast<f32>(height)
AspectRatioOf(w, h) == F32Div(F32FromU32(w), F32FromU32(h))

\* the native width rounded to the nearest integer instead
NativeWidthOfRounded(h) == (32 * h + 9) \div 18

\* nativeWidth = (16.0f / 9.0f) * static_cast<f32>(height), converted to u32
NativeWidthOf(h) ==
    F32ToU32(F32Mul(F32Div(F32FromU32(16), F32FromU32(9)), F32FromU32(h)))

\* nativeOffset = static_cast<f32>(width - nativeWidth) / 2.0f, converted to u32
NativeOffsetOf(w, nw) ==
    F32ToU32Pair(F32Div(F32FromU32Diff(w, nw), F32FromU32(2)))

\* widthScalingFactor = static_cast<f32>(width) / static_cast<f32>(nativeWidth)
WidthScalingFactorOf(w, nw) == F32Div(F32FromU32(w), F32FromU32(nw))

ReadYml ==
    /\ wpc = "readYml"
    /\ ~crashed
    /\ yml' = [masterEnable |-> config.masterEnable,
               width        |-> EffectiveResolution(config, desktop)[1],
               height       |-> EffectiveResolution(config, desktop)[2],
               aspectRatio  |-> AspectRatioOf(EffectiveResolution(config, desktop)[1],
                                              EffectiveResolution(config, desktop)[2]),
               constrainHud |-> config.constrainHud]
    /\ nativeWidth' = NativeWidthOf(yml'.height)
    /\ nativeOffset' = NativeOffsetOf(yml'.width, nativeWidth')
    /\ widthScalingFactor' = WidthScalingFactorOf(yml'.width, nativeWidth')
    /\ wpc' = MainNext(wpc)
    /\ UNCHANGED <<cfgVars, flagVars, hookVars, runs, hostVars, crashed>>

\* bool enable = yml.masterEnable; in moviesFix
MoviesEnable == yml.masterEnable

\* moviesFix with the fix disabled: nothing happens
MoviesFixDisabled ==
    /\ wpc = "moviesFix"
    /\ ~crashed
    /\ ~MoviesEnable
    /\ fix' = [fix EXCEPT !["movies"] = "disabled"]
    /\ wpc' = MainNext(wpc)
    /\ UNCHANGED <<cfgVars, ymlVars, flagVars, readFileHook, created,
                   readFilePatched, runs, hostVars, crashed>>

\* a failure of moviesFix that ends the worker thread instead
MoviesFixUnresolvedAborts(what) ==
    /\ wpc = "moviesFix"
    /\ ~crashed
    /\ MoviesEnable
    /\ fix' = [fix EXCEPT !["movies"] = what]
    /\ wpc' = "aborted"
    /\ UNCHANGED <<cfgVars, ymlVars, flagVars, readFileHook, created,
                   readFilePatched, runs, hostVars, crashed>>

\* moviesFix when GetModuleHandleA or GetProcAddress returns null: log, return
MoviesFixUnresolved(what) ==
    /\ wpc = "moviesFix"
    /\ ~crashed
    /\ MoviesEnable
    /\ fix' = [fix EXCEPT !["movies"] = what]
    /\ wpc' = MainNext(wpc)
    /\ UNCHANGED <<cfgVars, ymlVars, flagVars, readFileHook, created,
                   readFilePatched, runs, hostVars, crashed>>

\* safetyhook::create_inline(readFileAddr, &kernelBaseDllReadFileHook): on
\* success ReadFile is patched when the call returns its hook object; on
\* failure it returns an empty object and ReadFile is untouched
MoviesFixCreate ==
    /\ wpc = "moviesFix"
    /\ ~crashed
    /\ MoviesEnable
    /\ \E ok \in BOOLEAN :
          /\ created' = IF ok THEN "hooked" ELSE "empty"
          /\ readFilePatched' = ok
    /\ wpc' = "moviesFix_assign"
    /\ UNCHANGED <<cfgVars, ymlVars, flagVars, readFileHook, fix, runs,
                   hostVars, crashed>>

\* readFileHook = <the returned object>; then the log line and the return
MoviesFixAssign ==
    /\ wpc = "moviesFix_assign"
    /\ ~crashed
    /\ readFileHook' = created
    /\ created' = "none"
    /\ fix' = [fix EXCEPT !["movies"] =
                  IF created = "hooked" THEN "installed" ELSE "installFailed"]
    /\ wpc' = MainNext("moviesFix")
    /\ UNCHANGED <<cfgVars, ymlVars, flagVars, readFilePatched, runs,
                   hostVars, crashed>>

\* Utils::injectHook(enable, module, hook, callback): nothing when enable is
\* false; otherwise the signature scan may fail, the installation may fail,
\* or the hook is live when the call returns.  It never throws.
InjectHook(p, enable) ==
    \E outcome \in {"notFound", "installFailed", "installed"} :
        fix' = [fix EXCEPT ![p] = IF enable THEN outcome ELSE "disabled"]

\* the aspect-ratio fix enabled whatever the configuration says
AspectRatioEnableAlways == TRUE

\* bool enable = yml.masterEnable; in aspectRatioFix
AspectRatioEnable == yml.masterEnable

\* bool enable = yml.masterEnable; in resolutionFix
ResolutionEnable == yml.masterEnable

\* the HUD fix gated by the master switch alone
HudElementsEnableMasterOnly == yml.masterEnable

\* bool enable = yml.masterEnable && yml.feature.constrainHud.enable;
HudElementsEnable == yml.masterEnable /\ yml.constrainHud

AspectRatioFix ==
    /\ wpc = "aspectRatioFix"
    /\ ~crashed
    /\ InjectHook("aspectRatio", AspectRatioEnable)
    /\ wpc' = MainNext(wpc)
    /\ UNCHANGED <<cfgVars, ymlVars, flagVars, readFileHook, created,
                   readFilePatched, runs, hostVars, crashed>>

ResolutionFix ==
    /\ wpc = "resolutionFix"
    /\ ~crashed
    /\ InjectHook("resolution", ResolutionEnable)
    /\ wpc' = MainNext(wpc)
    /\ UNCHANGED <<cfgVars, ymlVars, flagVars, readFileHook, created,
                   readFilePatched, runs, hostVars, crashed>>

HudElementsFix ==
    /\ wpc = "hudElementsFix"
    /\ ~crashed
    /\ InjectHook("hudElements", HudElementsEnable)
    /\ wpc' = MainNext(wpc)
    /\ UNCHANGED <<cfgVars, ymlVars, flagVars, readFileHook, created,
                   readFilePatched, runs, hostVars, crashed>>

(***************************************************************************)
(* The hook callbacks, run inline by whichever host thread gets there.     *)
(***************************************************************************)
\* the aspect-ratio override skipped while a movie plays
AspectRatioCallbackGated(ctx) ==
    IF isMoviePlaying = FALSE THEN [ctx EXCEPT !.xmm0[1] = yml.aspectRatio] ELSE ctx

\* ctx.xmm0.f32[0] = yml.resolution.aspectRatio;
AspectRatioCallback(ctx) == [ctx EXCEPT !.xmm0[1] = yml.aspectRatio]

\* if (isMoviePlaying == false) ctx.xmm0.f32[0] = static_cast<float>(width);
ResolutionCallback(ctx) ==
    IF isMoviePlaying = FALSE
    THEN [ctx EXCEPT !.xmm0[1] = F32FromU32(yml.width)]
    ELSE ctx

\* (scaler & mask) == mask for a mask whose low 24 bits are zero
TopByteMaskHolds(word, maskTop) == BitAnd(word[1], maskTop) = maskTop

\* ((scaler0 & 0xBF000000) == 0xBF000000) && ((scaler1 & 0x3F000000) == 0x3F000000)
HudGuard(mem) == TopByteMaskHolds(mem.f30, 191) /\ TopByteMaskHolds(mem.f3C, 63)

\* -1.0f
F32MinusOne == [s |-> 1, m |-> Pow2(23), e |-> -23]

\* the HUD callback with the ratio the wrong way up
HudCallbackInverted(mem) ==
    IF TopByteMaskHolds(mem.f30, 191) /\ TopByteMaskHolds(mem.f3C, 63)
    THEN [mem EXCEPT
             !.f00 = F32Bits(F32Mul(F32Div(F32FromU32(2), F32FromU32(yml.width)),
                                    F32Div(F32FromU32(yml.width), F32FromU32(nativeWidth)))),
             !.f30 = F32Bits(F32Mul(F32Div(F32FromU32(yml.width), F32FromU32(nativeWidth)),
                                    [s |-> 1, m |-> Pow2(23), e |-> -23]))]
    ELSE mem

\* the HUD callback on the structure eax points to
HudCallback(mem) ==
    IF HudGuard(mem)
    THEN LET ratio == F32Div(F32FromU32(nativeWidth), F32FromU32(yml.width))
         IN  [mem EXCEPT
                 !.f00 = F32Bits(F32Mul(F32Div(F32FromU32(2), F32FromU32(yml.width)), ratio)),
                 !.f30 = F32Bits(F32Mul(ratio, F32MinusOne))]
    ELSE mem

\* an idle host thread executes the instruction the aspect-ratio hook sits on
HostAspectRatio ==
    /\ ~crashed
    /\ \E t \in Threads : hpc[t] = Idle
    /\ fix["aspectRatio"] = "installed"
    /\ \E lanes \in EntryLanes :
          ev' = [kind |-> "aspectRatio", entry |-> [xmm0 |-> lanes],
                 exit |-> AspectRatioCallback([xmm0 |-> lanes]),
                 flag |-> isMoviePlaying]
    /\ UNCHANGED <<cfgVars, ymlVars, flagVars, hookVars, wpc, runs, hpc, crashed>>

\* an idle host thread executes the instruction the resolution hook sits on
HostResolution ==
    /\ ~crashed
    /\ \E t \in Threads : hpc[t] = Idle
    /\ fix["resolution"] = "installed"
    /\ \E lanes \in EntryLanes :
          ev' = [kind |-> "resolution", entry |-> [xmm0 |-> lanes],
                 exit |-> ResolutionCallback([xmm0 |-> lanes]),
                 flag |-> isMoviePlaying]
    /\ UNCHANGED <<cfgVars, ymlVars, flagVars, hookVars, wpc, runs, hpc, crashed>>

\* an idle host thread executes the instruction the HUD hook sits on
HostHudElements ==
    /\ ~crashed
    /\ \E t \in Threads : hpc[t] = Idle
    /\ fix["hudElements"] = "installed"
    /\ \E mem \in HudEntries :
          ev' = [kind |-> "hudElements", entry |-> mem, exit |-> HudCallback(mem)]
    /\ UNCHANGED <<cfgVars, ymlVars, flagVars, hookVars, wpc, runs, hpc, crashed>>

\* an idle host thread calls ReadFile while it is not patched: the original runs
HostReadFileDirect ==
    /\ ~crashed
    /\ \E t \in Threads : hpc[t] = Idle
    /\ ~readFilePatched
    /\ \E c \in ReadCalls, r \in {0, 1} :
          ev' = [kind |-> "direct", call |-> c, ret |-> r]
    /\ UNCHANGED <<cfgVars, ymlVars, flagVars, hookVars, wpc, runs, hpc, crashed>>

\* a host thread calls ReadFile while it is patched: kernelBaseDllReadFileHook
\* is entered with the caller's arguments
HostReadFileHooked(t) ==
    /\ ~crashed
    /\ hpc[t] = Idle
    /\ readFilePatched
    /\ \E c \in ReadCalls :
          hpc' = [hpc EXCEPT ![t] = [pc |-> "resolve", call |-> c]]
    /\ UNCHANGED <<cfgVars, ymlVars, flagVars, hookVars, wpc, runs, crashed, ev>>

\* if (GetFinalPathNameByHandleA(...)) isMoviePlaying = (the extension of
\* what the buffer holds is .wmv); the test is of the value returned
MovieFlagAfter(got, flag) ==
    IF got.ret # 0
    THEN Extension(StripLongPathPrefix(got.fileName)) = MovieExtension
    ELSE flag

\* the first half of kernelBaseDllReadFileHook: the path and the flag
ReadHookResolve(t) ==
    /\ ~crashed
    /\ hpc[t].pc = "resolve"
    /\ LET h     == hpc[t].call.hFile
           after == MovieFlagAfter(GetFinalPathNameByHandleA(h), isMoviePlaying)
       IN  /\ isMoviePlaying' = after
           /\ lastRead' = h
           /\ ev' = [kind |-> "resolve", hFile |-> h, before |-> isMoviePlaying,
                     after |-> after]
    /\ hpc' = [hpc EXCEPT ![t] = [pc |-> "forward", call |-> hpc[t].call]]
    /\ UNCHANGED <<cfgVars, ymlVars, hookVars, wpc, runs, crashed>>

\* the arguments readFileHook.stdcall<BOOL>(...) is given
ForwardedCall(c) ==
    [hFile |-> c.hFile, lpBuffer |-> c.lpBuffer,
     nNumberOfBytesToRead |-> c.nNumberOfBytesToRead,
     lpNumberOfBytesRead |-> c.lpNumberOfBytesRead,
     lpOverlapped |-> c.lpOverlapped]

\* the second half: return readFileHook.stdcall<BOOL>(...).  With a hooked
\* readFileHook the trampoline runs the original ReadFile once and its result
\* is returned.  With an empty one the handle has no trampoline: depending
\* on the build of the hooking library the call goes through a null pointer,
\* or the library returns BOOL() = 0 without calling anything.
ReadHookForward(t) ==
    /\ ~crashed
    /\ hpc[t].pc = "forward"
    /\ IF readFileHook = "hooked"
       THEN /\ \E r \in {0, 1} :
                  ev' = [kind |-> "forward", call |-> hpc[t].call,
                         forwarded |-> ForwardedCall(hpc[t].call),
                         origCalls |-> 1, origRet |-> r, ret |-> r]
            /\ hpc' = [hpc EXCEPT ![t] = Idle]
            /\ UNCHANGED crashed
       ELSE \/ /\ ev' = [kind |-> "fault", call |-> hpc[t].call, origCalls |-> 0]
               /\ hpc' = [hpc EXCEPT ![t] = [pc |-> "fault", call |-> hpc[t].call]]
               /\ crashed' = TRUE
            \/ /\ ev' = [kind |-> "skipped", call |-> hpc[t].call,
                          origCalls |-> 0, ret |-> 0]
               /\ hpc' = [hpc EXCEPT ![t] = Idle]
               /\ UNCHANGED crashed
    /\ UNCHANGED <<cfgVars, ymlVars, flagVars, hookVars, wpc, runs>>

Worker ==
    \/ DllMain
    \/ LogInit
    \/ ReadYml
    \/ MoviesFixDisabled
    \/ \E what \in {"noModule", "noExport"} : MoviesFixUnresolved(what)
    \/ MoviesFixCreate
    \/ MoviesFixAssign
    \/ AspectRatioFix
    \/ ResolutionFix
    \/ HudElementsFix

Host(t) ==
    \/ HostReadFileHooked(t)
    \/ ReadHookResolve(t)
    \/ ReadHookForward(t)

\* what an idle host thread does in one step at a hooked instruction or at
\* the unpatched ReadFile
HostAtHook ==
    \/ HostAspectRatio
    \/ HostResolution
    \/ HostHudElements
    \/ HostReadFileDirect

Next == Worker \/ HostAtHook \/ \E t \in Threads : Host(t)

Spec == Init /\ [][Next]_vars

(***************************************************************************)
(* Main entered a second time, for the idempotence of a disabled           *)
(* configuration.  Nothing is reset: the globals and the hooks are as     *)
(* the first run left them.                                                *)
(***************************************************************************)
MaxRuns == 2

MainAgain ==
    /\ wpc = "done"
    /\ ~crashed
    /\ runs < MaxRuns
    /\ ~yml.masterEnable
    /\ wpc' = "logInit"
    /\ runs' = runs + 1
    /\ UNCHANGED <<cfgVars, ymlVars, flagVars, hookVars, hostVars, crashed>>

NextRerun == Next \/ MainAgain

SpecRerun == Init /\ [][NextRerun]_vars

(***************************************************************************)
(* What the properties are stated with.                                    *)
(***************************************************************************)
\* the resolution the configuration document and the desktop stand for
ConfiguredWidth == IF config.width = 0 \/ config.height = 0 THEN desktop[1] ELSE config.width

ConfiguredHeight == IF config.width = 0 \/ config.height = 0 THEN desktop[2] ELSE config.height

\* readYml has returned
ConfigLoaded == wpc \notin {"unloaded", "noThread", "logInit", "readYml"}

\* the f32 f is exactly the integer n
F32IsInteger(f, n) ==
    /\ f.s = 0
    /\ f.e <= 0
    /\ f.e > -24
    /\ f.m % Pow2(-f.e) = 0
    /\ f.m \div Pow2(-f.e) = n

\* the correctly rounded f32 of N / D * 2^x for D <= N < 2 * D
RatioAligned(N, D, x) ==
    F32Pack(0,
            IF DivBits(N, D, 24, 0)[2] > D
               \/ (DivBits(N, D, 24, 0)[2] = D /\ DivBits(N, D, 24, 0)[1] % 2 = 1)
            THEN DivBits(N, D, 24, 0)[1] + 1
            ELSE DivBits(N, D, 24, 0)[1],
            x - 23)

\* the correctly rounded f32 of n * 2^x / d for n and d of the same bit length
RatioSameLength(n, d, x) ==
    IF n >= d THEN RatioAligned(n, d, x) ELSE RatioAligned(2 * n, d, x - 1)

\* the correctly rounded f32 of the rational n / d (n, d positive, below 2^29)
RatioF32(n, d) ==
    IF BitLen(n) >= BitLen(d)
    THEN RatioSameLength(n, d * Pow2(BitLen(n) - BitLen(d)), BitLen(n) - BitLen(d))
    ELSE RatioSameLength(n * Pow2(BitLen(d) - BitLen(n)), d, BitLen(n) - BitLen(d))

F32Negated(f) == [f EXCEPT !.s = 1 - f.s]

\* how many f32 values apart two words of the same sign are
UlpDistance(a, b) ==
    IF (a[1] % 128) * Pow2(24) + a[2] >= (b[1] % 128) * Pow2(24) + b[2]
    THEN (a[1] % 128) * Pow2(24) + a[2] - ((b[1] % 128) * Pow2(24) + b[2])
    ELSE (b[1] % 128) * Pow2(24) + b[2] - ((a[1] % 128) * Pow2(24) + a[2])

\* the handles whose file is a movie (its name ends in .wmv)
HandleIsMovie(h) == h \in {"hMovie", "hLongMovie"}

(***************************************************************************)
(* Properties.                                                             *)
(***************************************************************************)
\* C1: every run of the resolution callback leaves lane 0 of xmm0 holding
\* the configured width when the movie flag it read was false, and holding
\* its entry value when the flag was true; the other lanes keep their
\* values.  In particular, when the most recent intercepted read was of a
\* .wmv file the callback leaves the lane as it was, and when it was of a
\* file with another extension the callback writes the width.
ResolutionFollowsLastRead ==
    ev.kind = "resolution" =>
        /\ ~ev.flag => F32IsInteger(ev.exit.xmm0[1], ConfiguredWidth)
        /\ ev.flag => ev.exit.xmm0[1] = ev.entry.xmm0[1]
        /\ \A i \in 2..4 : ev.exit.xmm0[i] = ev.entry.xmm0[i]
        /\ HandleIsMovie(lastRead) => ev.exit.xmm0[1] = ev.entry.xmm0[1]
        /\ lastRead = "hScript" => F32IsInteger(ev.exit.xmm0[1], ConfiguredWidth)

\* C2: after every intercepted read, whatever the handle, the flag is true
\* exactly when the handle's file is a movie.
MovieFlagFollowsEveryRead ==
    ev.kind = "resolve" => ev.after = HandleIsMovie(ev.hFile)

\* C3: every run of the read intercept calls the original ReadFile exactly
\* once, with the five arguments it received, and returns its result.
ReadPassThrough ==
    /\ ev.kind = "forward" =>
          /\ ev.origCalls = 1
          /\ ev.forwarded = ev.call
          /\ ev.ret = ev.origRet
    /\ ev.kind \notin {"fault", "skipped"}

\* C4: with masterEnable false no hook is ever installed, in the first run
\* of Main and in the second: ReadFile is not patched, no hook object is
\* created, and when Main returns each fix has been run disabled.  (The
\* second run ends in logInit and leaves the outcomes of the first.)
MasterDisabledInstallsNothing ==
    ~config.masterEnable =>
        /\ ~readFilePatched
        /\ readFileHook = "empty"
        /\ created = "none"
        /\ \A p \in Policies \cup {"movies"} : fix[p] \in {"none", "disabled"}
        /\ wpc = "done" => \A p \in Policies \cup {"movies"} : fix[p] = "disabled"

\* Main has been run a second time under a disabled configuration and has
\* ended, with every fix still as the first run left it: disabled
DisabledSecondRunDone ==
    /\ ~config.masterEnable
    /\ runs = 2
    /\ wpc = "threw"
    /\ ~readFilePatched
    /\ \A p \in Policies \cup {"movies"} : fix[p] = "disabled"

\* a host thread runs a hook callback in this step
ReadInterceptStep ==
    \/ \E t \in Threads : hpc[t].pc = "idle" /\ hpc'[t].pc = "resolve"
    \/ ev' # ev /\ ev'.kind \in {"resolve", "forward", "fault", "skipped"}

CallbackStep(k) == ev' # ev /\ ev'.kind = k

\* C5 as claimed: no hook callback runs before Main has returned.
NoCallbackBeforeInitDone ==
    [][(ReadInterceptStep \/ \E k \in Policies : CallbackStep(k)) => wpc = "done"]_vars

\* C5 as amended: a hook's callback runs only after the configuration has
\* been read and Main has reached that hook's own installation: the read
\* intercept not before moviesFix has created its hook, the aspect-ratio
\* callback not before aspectRatioFix, the resolution callback not before
\* resolutionFix, the HUD callback not before hudElementsFix.
CallbackAfterOwnInstall ==
    [][/\ ReadInterceptStep =>
             wpc \in {"moviesFix_assign", "aspectRatioFix", "resolutionFix",
                      "hudElementsFix", "done"}
       /\ CallbackStep("aspectRatio") =>
             wpc \in {"aspectRatioFix", "resolutionFix", "hudElementsFix", "done"}
       /\ CallbackStep("resolution") =>
             wpc \in {"resolutionFix", "hudElementsFix", "done"}
       /\ CallbackStep("hudElements") =>
             wpc \in {"hudElementsFix", "done"}]_vars

\* the read intercept is running while Main is still installing hooks
InterceptDuringInit ==
    /\ wpc \in {"aspectRatioFix", "resolutionFix", "hudElementsFix"}
    /\ ev.kind = "resolve"
    /\ fix["hudElements"] = "none"

\* C6: the HUD callback writes the structure exactly when the top byte of
\* the word at +0x30 is 0xBF and the top byte of the word at +0x3C is 0x3F,
\* and otherwise leaves it as it was.
HudWritesIffGuardBytes ==
    ev.kind = "hudElements" =>
        IF ev.entry.f30[1] = 191 /\ ev.entry.f3C[1] = 63
        THEN ev.exit # ev.entry
        ELSE ev.exit = ev.entry

\* C7: when the top bytes are 0xBF and 0x3F the callback stores
\* -(nativeWidth / width) at +0x30 and (2 / width) * (nativeWidth / width),
\* to within four units in the last place of 2 * nativeWidth / width^2, at
\* +0x00, and leaves +0x3C alone; 3440 wide with nativeWidth 2560 gives
\* 2 * 2560 / 3440^2 and -2560 / 3440, 7680 wide with nativeWidth 3840
\* gives 1 / 7680 and -1 / 2.
HudFormula ==
    (ev.kind = "hudElements" /\ ev.entry.f30[1] = 191 /\ ev.entry.f3C[1] = 63) =>
        /\ ev.exit.f30 = F32Bits(F32Negated(RatioF32(nativeWidth, ConfiguredWidth)))
        /\ ev.exit.f00[1] < 128
        /\ UlpDistance(ev.exit.f00,
                       F32Bits(RatioF32(2 * nativeWidth,
                                        ConfiguredWidth * ConfiguredWidth))) <= 4
        /\ ev.exit.f3C = ev.entry.f3C
        /\ ConfiguredWidth = 3440 =>
              /\ nativeWidth = 2560
              /\ ev.exit.f00 = F32Bits(RatioF32(2 * 2560, 3440 * 3440))
              /\ ev.exit.f30 = F32Bits(F32Negated(RatioF32(2560, 3440)))
        /\ ConfiguredWidth = 7680 =>
              /\ nativeWidth = 3840
              /\ ev.exit.f00 = F32Bits(RatioF32(1, 7680))
              /\ ev.exit.f30 = F32Bits(F32Negated(RatioF32(1, 2)))

\* the HUD callback has written a structure under a resolution that is no
\* multiple of 16:9
HudWrittenAtOddResolution ==
    /\ ev.kind = "hudElements"
    /\ ev.entry.f30[1] = 191
    /\ ev.entry.f3C[1] = 63
    /\ ev.exit # ev.entry
    /\ (ConfiguredWidth * 9) % (ConfiguredHeight * 16) # 0

\* C8 as claimed: after readYml nativeWidth is 16/9 * height rounded to the
\* nearest integer.
NativeWidthRounded ==
    ConfigLoaded => nativeWidth = (32 * ConfiguredHeight + 9) \div 18

\* C8 as amended: after readYml nativeWidth is 16/9 * height truncated to
\* an integer (1440 gives 2560, 1050 gives 1866), computed from the height
\* finally used, configured or auto-detected, which is the height the
\* aspect ratio is computed from.
NativeWidthTruncated ==
    ConfigLoaded =>
        /\ nativeWidth = (16 * ConfiguredHeight) \div 9
        /\ yml.height = ConfiguredHeight
        /\ yml.width = ConfiguredWidth
        /\ yml.aspectRatio = RatioF32(yml.width, yml.height)

\* readYml has run on an auto-detected height that 16/9 does not scale to an
\* integer
NativeWidthOfDetectedHeight ==
    /\ ConfigLoaded
    /\ config.height = 0
    /\ (16 * yml.height) % 9 > 4
    /\ nativeWidth = 1866

\* C9: every run of the aspect-ratio callback leaves lane 0 of xmm0 holding
\* the f32 quotient width / height of the configured resolution, whatever
\* the movie flag, keeps the other lanes, and changes no shared state.
AspectRatioOverride ==
    /\ [](ev.kind = "aspectRatio" =>
            /\ ev.exit.xmm0[1] = RatioF32(ConfiguredWidth, ConfiguredHeight)
            /\ \A i \in 2..4 : ev.exit.xmm0[i] = ev.entry.xmm0[i])
    /\ [][CallbackStep("aspectRatio") =>
            UNCHANGED <<cfgVars, ymlVars, flagVars, hookVars, wpc, runs,
                        hpc, crashed>>]_vars

\* the aspect-ratio callback has overridden the lane while a movie plays
AspectRatioWrittenDuringMovie ==
    /\ ev.kind = "aspectRatio"
    /\ ev.flag
    /\ ev.exit.xmm0[1] # ev.entry.xmm0[1]
    /\ ev.exit.xmm0[1] = RatioF32(ConfiguredWidth, ConfiguredHeight)

\* C10: when moviesFix cannot resolve KernelBase.dll or ReadFile it returns
\* without patching ReadFile, Main goes on to the three other fixes, can
\* always take its next step, and has attempted all three when it returns;
\* whatever the outcomes of the fixes, every one has been attempted when
\* Main returns.
MoviesFailureContained ==
    /\ fix["movies"] \in {"noModule", "noExport"} =>
          /\ ~readFilePatched
          /\ readFileHook = "empty"
          /\ ~crashed
          /\ wpc \in {"aspectRatioFix", "resolutionFix", "hudElementsFix", "done"}
          /\ wpc # "done" => ENABLED Worker
    /\ wpc = "done" => \A p \in Policies \cup {"movies"} : fix[p] # "none"

\* Main has returned after moviesFix failed, with another fix installed
OtherFixInstalledAfterMoviesFailure ==
    /\ fix["movies"] = "noExport"
    /\ wpc = "done"
    /\ fix["aspectRatio"] = "installed"
    /\ fix["resolution"] = "notFound"

\* C11: once the configuration is read, the HUD fix is enabled exactly when
\* masterEnable and constrainHud.enable are both true, and the aspect-ratio,
\* resolution and movie fixes are enabled exactly when masterEnable is true,
\* whatever constrainHud.enable is; a fix that has been run is recorded as
\* disabled exactly when its enable predicate was false.
HudFlagGatesHudOnly ==
    /\ ConfigLoaded =>
          /\ HudElementsEnable = (config.masterEnable /\ config.constrainHud)
          /\ AspectRatioEnable = config.masterEnable
          /\ ResolutionEnable = config.masterEnable
          /\ MoviesEnable = config.masterEnable
    /\ fix["hudElements"] # "none" =>
          (fix["hudElements"] = "disabled") = ~(config.masterEnable /\ config.constrainHud)
    /\ \A p \in {"aspectRatio", "resolution", "movies"} :
          fix[p] # "none" => (fix[p] = "disabled") = ~config.masterEnable

\* Main has returned with the HUD fix switched off by its own flag and the
\* three other fixes installed
HudDisabledOthersInstalled ==
    /\ config.masterEnable
    /\ ~config.constrainHud
    /\ wpc = "done"
    /\ fix["hudElements"] = "disabled"
    /\ fix["aspectRatio"] = "installed"
    /\ fix["resolution"] = "installed"
    /\ fix["movies"] = "installed"

\* the values the callbacks read hold what readYml computes, none of them
\* the zero the globals start with
ConfigValuesSet ==
    /\ yml.masterEnable = config.masterEnable
    /\ yml.constrainHud = config.constrainHud
    /\ yml.width = ConfiguredWidth
    /\ yml.height = ConfiguredHeight
    /\ yml.width > 0
    /\ yml.height > 0
    /\ yml.aspectRatio # F32Zero
    /\ nativeWidth > 0
    /\ widthScalingFactor # F32Zero

\* a hook exists: ReadFile is patched, a hook object has been created, or a
\* mid-function hook is installed
SomeHookExists ==
    \/ readFilePatched
    \/ created = "hooked"
    \/ readFileHook = "hooked"
    \/ \E p \in Policies : fix[p] = "installed"

\* C12: whenever a hook exists readYml has returned and the configuration
\* values are set; every step in which a callback runs finds them set and
\* leaves the configuration and the derived values as they were.
ConfigLoadedBeforeHooks ==
    /\ [](SomeHookExists => ConfigLoaded /\ ConfigValuesSet)
    /\ [][(ReadInterceptStep \/ \E k \in Policies : CallbackStep(k)) =>
            /\ ConfigLoaded
            /\ ConfigValuesSet
            /\ UNCHANGED <<cfgVars, ymlVars>>]_vars

\* the HUD callback has used the auto-detected width and the native width
\* derived from the auto-detected height
HudCallbackOnDetectedConfig ==
    /\ config.width = 0
    /\ ev.kind = "hudElements"
    /\ ev.exit # ev.entry
    /\ yml.width = desktop[1]
    /\ nativeWidth = NativeWidthOf(desktop[2])

\* C13: whenever ReadFile is redirected to the intercept, readFileHook
\* holds the installed hook, so every run of the intercept that reaches its
\* forwarding call finds the hook there and the call reaches the original.
PassThroughHandleValid ==
    /\ readFilePatched => readFileHook = "hooked"
    /\ \A t \in Threads : hpc[t].pc = "forward" => readFileHook = "hooked"

====
